---- MODULE Spec2Model ----
(***************************************************************************)
(* bcec_AtomicRingBufferIndexManager: the lock-free index manager of a     *)
(* fixed-capacity circular buffer                                          *)
(* (src/groups/bce/bcec/bcec_atomicringbufferindexmanager.cpp).            *)
(*                                                                         *)
(* Every atomic access of the code (a load, a testAndSwap, a store) is one *)
(* step of the calling thread; the threads' steps interleave freely.  The  *)
(* words keep the layout of the code, scaled from 'sizeof(int) * 8' bits   *)
(* to WordBits bits so that the generation count and the combined index    *)
(* wrap around within the explored states.                                 *)
(***************************************************************************)
EXTENDS Integers, FiniteSets, Sequences, TLC

\* ------------------------------------------------------------------ bounds
NumThreads == 2
MaxCapacity == 3
WordBits == 4

\* The largest modulus circularDifference is called with on its own.
MaxModulo == 8
MaxGenerationTested == 7

\* The word widths numRepresentableGenerations is evaluated for on its own.
MinWordBitsTested == 3
MaxWordBitsTested == 8

Threads == 1..NumThreads

Min(a, b) == IF a <= b THEN a ELSE b

\* ------------------------------------------------------- ElementState enum
e_EMPTY == 0
e_WRITING == 1
e_FULL == 2
e_READING == 3

\* -------------------------------------------------------- state constants
e_ELEMENT_STATE_MASK == 3
e_GENERATION_COUNT_SHIFT == 2

e_NUM_REPRESENTABLE_ELEMENT_STATE_GENERATIONS == 2 ^ (WordBits - 2)

e_DISABLED_STATE_MASK == 2 ^ (WordBits - 1)

e_NUM_REPRESENTABLE_COMBINED_INDICES == e_DISABLED_STATE_MASK

e_MAX_CAPACITY == 2 ^ (WordBits - 2)

\* ------------------------------------------------- state element encoding
encodeElementState(generation, indexState) ==
    generation * (2 ^ e_GENERATION_COUNT_SHIFT) + indexState

decodeGenerationFromElementState(encodedState) ==
    encodedState \div (2 ^ e_GENERATION_COUNT_SHIFT)

decodeStateFromElementState(encodedState) ==
    encodedState % (e_ELEMENT_STATE_MASK + 1)

\* -------------------------------------------------------- index operations
\* Mutant: the mask of the disabled bit is one bit too low.
isDisabledFlagSet_WrongBit(encodedPushIndex) ==
    (encodedPushIndex \div (e_DISABLED_STATE_MASK \div 2)) % 2 = 1

isDisabledFlagSet(encodedPushIndex) ==
    (encodedPushIndex \div e_DISABLED_STATE_MASK) % 2 = 1

discardDisabledFlag(encodedPushIndex) ==
    IF (encodedPushIndex \div e_DISABLED_STATE_MASK) % 2 = 1
    THEN encodedPushIndex - e_DISABLED_STATE_MASK
    ELSE encodedPushIndex

\* ------------------------------------------------------------ class methods
\* Mutant: the combined indices are counted over the whole word, the
\* disabled bit included.
numRepresentableGenerationsAt_WholeWord(wordBits, cap) ==
    Min((2 ^ wordBits) \div cap, 2 ^ (wordBits - 2))

\* The function for an 'int' of wordBits bits:
\* e_NUM_REPRESENTABLE_COMBINED_INDICES is 1 << (wordBits - 1) and
\* e_NUM_REPRESENTABLE_ELEMENT_STATE_GENERATIONS is 1 << (wordBits - 2).
numRepresentableGenerationsAt(wordBits, cap) ==
    Min((2 ^ (wordBits - 1)) \div cap, 2 ^ (wordBits - 2))

numRepresentableGenerations(cap) ==
    Min(e_NUM_REPRESENTABLE_COMBINED_INDICES \div cap,
        e_NUM_REPRESENTABLE_ELEMENT_STATE_GENERATIONS)

\* Mutant: a difference above half the modulus is returned as it is.
circularDifference_NoUpperTest(minuend, subtrahend, modulo) ==
    LET difference == minuend - subtrahend
    IN  IF difference < -(modulo \div 2) THEN difference + modulo
        ELSE difference

circularDifference(minuend, subtrahend, modulo) ==
    LET difference == minuend - subtrahend
    IN  IF difference > modulo \div 2 THEN difference - modulo
        ELSE IF difference < -(modulo \div 2) THEN difference + modulo
        ELSE difference

\* ------------------------------------------------------------------- state
VARIABLES
    capacity,    \* d_capacity
    states,      \* d_states: one encoded word per element
    pushIndex,   \* d_pushIndex: combined index, plus the disabled bit
    popIndex,    \* d_popIndex: combined index
    pc,          \* per thread: where it stands in the call it executes
    loaded,      \* per thread: the cursor word its call last loaded
    hold,        \* per thread: "none", "W" (push reservation), "R" (pop)
    rgen,        \* per thread: generation of the reservation it holds
    ridx,        \* per thread: index of the reservation it holds
    ret,         \* per thread: <<status, value>> its last call returned
    aborted      \* a BSLS_ASSERT_OPT failed and ended the program

vars == <<capacity, states, pushIndex, popIndex, pc, loaded, hold, rgen, ridx,
          ret, aborted>>

shared == <<states, pushIndex, popIndex>>

\* --------------------------------------------------- per-object constants
d_maxGeneration == numRepresentableGenerations(capacity) - 1

\* Mutant: the maximum combined index as the implementation note words it.
d_maxCombinedIndex_AsNoted == d_maxGeneration * capacity

d_maxCombinedIndex == numRepresentableGenerations(capacity) * capacity - 1

nextCombinedIndex(combinedIndex) ==
    IF combinedIndex = d_maxCombinedIndex THEN 0 ELSE combinedIndex + 1

nextGeneration(generation) ==
    IF generation = d_maxGeneration THEN 0 ELSE generation + 1

\* bsls::AtomicInt::testAndSwap: the word after the operation (the value it
\* returns is the word before).
\* Mutant: the word is written whatever it held.
testAndSwap_Unconditional(word, compareValue, swapValue) == swapValue

testAndSwap(word, compareValue, swapValue) ==
    IF word = compareValue THEN swapValue ELSE word

\* ------------------------------------------------------------- constructor
Init ==
    /\ capacity \in 1..Min(MaxCapacity, e_MAX_CAPACITY)
    /\ states = [i \in 0..(capacity - 1) |-> encodeElementState(0, e_EMPTY)]
    /\ pushIndex = 0
    /\ popIndex = 0
    /\ pc = [t \in Threads |-> "idle"]
    /\ loaded = [t \in Threads |-> 0]
    /\ hold = [t \in Threads |-> "none"]
    /\ rgen = [t \in Threads |-> 0]
    /\ ridx = [t \in Threads |-> 0]
    /\ ret = [t \in Threads |-> <<"none", 0>>]
    /\ aborted = FALSE

\* A call returns: the thread is idle again, with the call's status.
ReturnValue(t, status, value) ==
    /\ pc' = [pc EXCEPT ![t] = "idle"]
    /\ loaded' = [loaded EXCEPT ![t] = 0]
    /\ ret' = [ret EXCEPT ![t] = <<status, value>>]

Return(t, status) == ReturnValue(t, status, 0)

\* A call starts, or goes round its loop: the last call's result is gone.
Begin(t) == ret' = [ret EXCEPT ![t] = <<"none", 0>>]

Goto(t, label) == pc' = [pc EXCEPT ![t] = label]

\* A call starts: only an idle thread of a running program calls.
Calls(t) == ~aborted /\ pc[t] = "idle"

At(t, label) == ~aborted /\ pc[t] = label

\* -------------------------------------------------------- reservePushIndex
\* Mutant: the disabled flag is dropped from the loaded word.
RP_LoadPushIndex_FlagDiscarded(t) ==
    /\ \/ Calls(t) /\ hold[t] = "none"
       \/ At(t, "rp_load")
    /\ loaded' = [loaded EXCEPT ![t] = discardDisabledFlag(pushIndex)]
    /\ Begin(t)
    /\ Goto(t, "rp_cas")
    /\ UNCHANGED <<capacity, shared, hold, rgen, ridx, aborted>>

\* 'd_pushIndex.loadRelaxed()': at the call's start, and after the yield.
RP_LoadPushIndex(t) ==
    /\ \/ Calls(t) /\ hold[t] = "none"
       \/ At(t, "rp_load")
    /\ loaded' = [loaded EXCEPT ![t] = pushIndex]
    /\ Begin(t)
    /\ Goto(t, "rp_cas")
    /\ UNCHANGED <<capacity, shared, hold, rgen, ridx, aborted>>

\* Mutant: the acquisition compares the generation and not the state.
RP_Acquired_GenerationOnly(compare, was) ==
    decodeGenerationFromElementState(compare) =
        decodeGenerationFromElementState(was)

\* 'if (compare == was)': the testAndSwap of the element's state succeeded.
RP_Acquired(compare, was) == compare = was

\* The expression of the test: 1 == difference || -maxGeneration == difference.
RP_FastFullTest(currGeneration, elementGeneration, maxGeneration) ==
    LET difference == currGeneration - elementGeneration
    IN  difference = 1 \/ difference = -maxGeneration

\* Mutant: an element taken in the current generation counts as 'full' too.
RP_IsOneGenerationBehind_OrSame(currGeneration, elementGeneration) ==
    LET difference == currGeneration - elementGeneration
    IN  difference = 0 \/ difference = 1 \/ difference = -d_maxGeneration

\* The test of reservePushIndex for 'the queue is full'.
RP_IsOneGenerationBehind(currGeneration, elementGeneration) ==
    RP_FastFullTest(currGeneration, elementGeneration, d_maxGeneration)

\* One pass of the loop up to the testAndSwap of the element's state, and
\* the examination of the value found.
RP_TestAndSwapState(t) ==
    /\ At(t, "rp_cas")
    /\ IF isDisabledFlagSet(loaded[t])
       THEN /\ Return(t, "e_DISABLED_QUEUE")
            /\ UNCHANGED <<capacity, shared, hold, rgen, ridx, aborted>>
       ELSE LET combinedIndex == discardDisabledFlag(loaded[t])
                currGeneration == combinedIndex \div capacity
                currIndex == combinedIndex % capacity
                compare == encodeElementState(currGeneration, e_EMPTY)
                swap == encodeElementState(currGeneration, e_WRITING)
                was == states[currIndex]
                elementGeneration == decodeGenerationFromElementState(was)
            IN  IF RP_Acquired(compare, was)
                THEN /\ states' = [states EXCEPT
                                     ![currIndex] = testAndSwap(was, compare, swap)]
                     /\ rgen' = [rgen EXCEPT ![t] = currGeneration]
                     /\ ridx' = [ridx EXCEPT ![t] = currIndex]
                     /\ hold' = [hold EXCEPT ![t] = "W"]
                     /\ Goto(t, "rp_adv")
                     /\ UNCHANGED <<capacity, pushIndex, popIndex, loaded, ret, aborted>>
                ELSE IF RP_IsOneGenerationBehind(currGeneration, elementGeneration)
                THEN \/ /\ 1 # circularDifference(currGeneration,
                                                  elementGeneration,
                                                  d_maxGeneration + 1)
                        /\ aborted' = TRUE
                        /\ UNCHANGED <<capacity, shared, pc, loaded, hold, rgen,
                                       ridx, ret>>
                     \/ /\ IF decodeStateFromElementState(was) = e_READING
                           THEN Goto(t, "rp_load") /\ UNCHANGED <<loaded, ret>>
                           ELSE Return(t, "e_QUEUE_FULL")
                        /\ UNCHANGED <<capacity, shared, hold, rgen, ridx,
                                       aborted>>
                ELSE /\ Goto(t, "rp_bump")
                     /\ UNCHANGED <<capacity, shared, loaded, hold, rgen, ridx,
                                    ret, aborted>>

\* 'loadedPushIndex = d_pushIndex.testAndSwap(combinedIndex, next)' in the
\* loop: the element was taken by another thread.
RP_BumpPushIndex(t) ==
    /\ At(t, "rp_bump")
    /\ LET combinedIndex == discardDisabledFlag(loaded[t])
           next == nextCombinedIndex(combinedIndex)
       IN  /\ pushIndex' = testAndSwap(pushIndex, combinedIndex, next)
           /\ loaded' = [loaded EXCEPT ![t] = pushIndex]
    /\ Goto(t, "rp_cas")
    /\ UNCHANGED <<capacity, states, popIndex, hold, rgen, ridx, ret,
                   aborted>>

\* The testAndSwap of 'd_pushIndex' after the element was acquired.
RP_AdvancePushIndex(t) ==
    /\ At(t, "rp_adv")
    /\ LET combinedIndex == discardDisabledFlag(loaded[t])
           next == nextCombinedIndex(combinedIndex)
       IN  pushIndex' = testAndSwap(pushIndex, combinedIndex, next)
    /\ Return(t, "e_SUCCESS")
    /\ UNCHANGED <<capacity, states, popIndex, hold, rgen, ridx, aborted>>

\* Mutant: 'generation' and 'index' are confused in the encoded word.
commitPushIndex_SwappedArguments(t) ==
    /\ Calls(t) /\ hold[t] = "W"
    /\ states' = [states EXCEPT ![ridx[t]] = encodeElementState(ridx[t], e_FULL)]
    /\ hold' = [hold EXCEPT ![t] = "none"]
    /\ rgen' = [rgen EXCEPT ![t] = 0]
    /\ ridx' = [ridx EXCEPT ![t] = 0]
    /\ Return(t, "none")
    /\ UNCHANGED <<capacity, pushIndex, popIndex, aborted>>

\* --------------------------------------------------------- commitPushIndex
commitPushIndex(t) ==
    /\ Calls(t) /\ hold[t] = "W"
    /\ states' = [states EXCEPT ![ridx[t]] = encodeElementState(rgen[t], e_FULL)]
    /\ hold' = [hold EXCEPT ![t] = "none"]
    /\ rgen' = [rgen EXCEPT ![t] = 0]
    /\ ridx' = [ridx EXCEPT ![t] = 0]
    /\ Return(t, "none")
    /\ UNCHANGED <<capacity, pushIndex, popIndex, aborted>>

\* --------------------------------------------------------- reservePopIndex
PP_LoadPopIndex(t) ==
    /\ \/ Calls(t) /\ hold[t] = "none"
       \/ At(t, "pp_load")
    /\ loaded' = [loaded EXCEPT ![t] = popIndex]
    /\ Begin(t)
    /\ Goto(t, "pp_cas")
    /\ UNCHANGED <<capacity, shared, hold, rgen, ridx, aborted>>

\* Mutant: the acquisition compares the generation and not the state.
PP_Acquired_GenerationOnly(compare, was) ==
    decodeGenerationFromElementState(compare) =
        decodeGenerationFromElementState(was)

PP_Acquired(compare, was) == compare = was

PP_TestAndSwapState(t) ==
    /\ At(t, "pp_cas")
    /\ LET currGeneration == loaded[t] \div capacity
           currIndex == loaded[t] % capacity
           compare == encodeElementState(currGeneration, e_FULL)
           swap == encodeElementState(currGeneration, e_READING)
           was == states[currIndex]
           state == decodeStateFromElementState(was)
       IN  IF PP_Acquired(compare, was)
           THEN /\ states' = [states EXCEPT
                                ![currIndex] = testAndSwap(was, compare, swap)]
                /\ rgen' = [rgen EXCEPT ![t] = currGeneration]
                /\ ridx' = [ridx EXCEPT ![t] = currIndex]
                /\ hold' = [hold EXCEPT ![t] = "R"]
                /\ Goto(t, "pp_adv")
                /\ UNCHANGED <<capacity, pushIndex, popIndex, loaded, ret,
                               aborted>>
           ELSE /\ IF currGeneration # decodeGenerationFromElementState(was)
                   THEN Return(t, "e_QUEUE_EMPTY")
                   ELSE IF state = e_EMPTY
                   THEN Return(t, "e_QUEUE_EMPTY")
                   ELSE IF state = e_WRITING \/ state = e_FULL
                   THEN Goto(t, "pp_load") /\ UNCHANGED <<loaded, ret>>
                   ELSE Goto(t, "pp_bump") /\ UNCHANGED <<loaded, ret>>
                /\ UNCHANGED <<capacity, shared, hold, rgen, ridx, aborted>>

PP_BumpPopIndex(t) ==
    /\ At(t, "pp_bump")
    /\ popIndex' = testAndSwap(popIndex, loaded[t], nextCombinedIndex(loaded[t]))
    /\ loaded' = [loaded EXCEPT ![t] = popIndex]
    /\ Goto(t, "pp_cas")
    /\ UNCHANGED <<capacity, states, pushIndex, hold, rgen, ridx, ret,
                   aborted>>

PP_AdvancePopIndex(t) ==
    /\ At(t, "pp_adv")
    /\ popIndex' = testAndSwap(popIndex, loaded[t], nextCombinedIndex(loaded[t]))
    /\ Return(t, "e_SUCCESS")
    /\ UNCHANGED <<capacity, states, pushIndex, hold, rgen, ridx, aborted>>

\* Mutant: the element is emptied without moving to the next generation.
commitPopIndex_SameGeneration(t) ==
    /\ Calls(t) /\ hold[t] = "R"
    /\ states' = [states EXCEPT ![ridx[t]] = encodeElementState(rgen[t], e_EMPTY)]
    /\ hold' = [hold EXCEPT ![t] = "none"]
    /\ rgen' = [rgen EXCEPT ![t] = 0]
    /\ ridx' = [ridx EXCEPT ![t] = 0]
    /\ Return(t, "none")
    /\ UNCHANGED <<capacity, pushIndex, popIndex, aborted>>

\* ---------------------------------------------------------- commitPopIndex
commitPopIndex(t) ==
    /\ Calls(t) /\ hold[t] = "R"
    /\ states' = [states EXCEPT
                    ![ridx[t]] = encodeElementState(nextGeneration(rgen[t]), e_EMPTY)]
    /\ hold' = [hold EXCEPT ![t] = "none"]
    /\ rgen' = [rgen EXCEPT ![t] = 0]
    /\ ridx' = [ridx EXCEPT ![t] = 0]
    /\ Return(t, "none")
    /\ UNCHANGED <<capacity, pushIndex, popIndex, aborted>>

\* ------------------------------------------------------------ disable, enable
\* 'const unsigned int pushIndex = d_pushIndex' of disable(): at the call's
\* start, and again after a lost testAndSwap.
D_LoadPushIndex(t) ==
    /\ \/ Calls(t) /\ hold[t] = "none"
       \/ At(t, "dis_load")
    /\ IF isDisabledFlagSet(pushIndex)
       THEN Return(t, "none")
       ELSE /\ loaded' = [loaded EXCEPT ![t] = pushIndex]
            /\ Begin(t)
            /\ Goto(t, "dis_cas")
    /\ UNCHANGED <<capacity, shared, hold, rgen, ridx, aborted>>

\* Mutant: the swap value is the mask alone, without the push index.
D_TestAndSwapPushIndex_MaskOnly(t) ==
    /\ At(t, "dis_cas")
    /\ pushIndex' = testAndSwap(pushIndex, loaded[t], e_DISABLED_STATE_MASK)
    /\ IF pushIndex = loaded[t]
       THEN Return(t, "none")
       ELSE Goto(t, "dis_load") /\ UNCHANGED <<loaded, ret>>
    /\ UNCHANGED <<capacity, states, popIndex, hold, rgen, ridx, aborted>>

D_TestAndSwapPushIndex(t) ==
    /\ At(t, "dis_cas")
    /\ pushIndex' = testAndSwap(pushIndex, loaded[t],
                                discardDisabledFlag(loaded[t])
                                    + e_DISABLED_STATE_MASK)
    /\ IF pushIndex = loaded[t]
       THEN Return(t, "none")
       ELSE Goto(t, "dis_load") /\ UNCHANGED <<loaded, ret>>
    /\ UNCHANGED <<capacity, states, popIndex, hold, rgen, ridx, aborted>>

E_LoadPushIndex(t) ==
    /\ \/ Calls(t) /\ hold[t] = "none"
       \/ At(t, "en_load")
    /\ IF ~isDisabledFlagSet(pushIndex)
       THEN Return(t, "none")
       ELSE /\ loaded' = [loaded EXCEPT ![t] = pushIndex]
            /\ Begin(t)
            /\ Goto(t, "en_cas")
    /\ UNCHANGED <<capacity, shared, hold, rgen, ridx, aborted>>

\* A variant of the step below that returns without a successful
\* testAndSwap.
E_TestAndSwapPushIndex_ReturnsOnFailure(t) ==
    /\ At(t, "en_cas")
    /\ pushIndex' = testAndSwap(pushIndex, loaded[t],
                                discardDisabledFlag(loaded[t]))
    /\ Return(t, "none")
    /\ UNCHANGED <<capacity, states, popIndex, hold, rgen, ridx, aborted>>

E_TestAndSwapPushIndex(t) ==
    /\ At(t, "en_cas")
    /\ pushIndex' = testAndSwap(pushIndex, loaded[t],
                                discardDisabledFlag(loaded[t]))
    /\ IF pushIndex = loaded[t]
       THEN Return(t, "none")
       ELSE Goto(t, "en_load") /\ UNCHANGED <<loaded, ret>>
    /\ UNCHANGED <<capacity, states, popIndex, hold, rgen, ridx, aborted>>

\* --------------------------------------------------------------- isEnabled
isEnabled(t) ==
    /\ Calls(t) /\ hold[t] = "none"
    /\ Return(t, IF ~isDisabledFlagSet(pushIndex) THEN "true" ELSE "false")
    /\ UNCHANGED <<capacity, shared, hold, rgen, ridx, aborted>>

\* ----------------------------------------------------------- clearPopIndex
\* The signed distance clearPopIndex computes from the loaded pop index to
\* the end: the subtraction of two 'unsigned int' wraps, and is widened to
\* 'bsls::Types::Int64' afterwards.
CP_Difference(loadedCombinedIndex, endCombinedIndex) ==
    LET difference == (endCombinedIndex - loadedCombinedIndex) % (2 ^ WordBits)
    IN  IF /\ loadedCombinedIndex >= d_maxCombinedIndex - capacity
           /\ endCombinedIndex < capacity
        THEN difference + d_maxCombinedIndex + 1
        ELSE difference

\* The caller holds the push reservation ('rgen', 'ridx') and passes it as
\* 'endGeneration' and 'endIndex' (the use that the note in
\* abortPushIndexReservation describes).
CP_LoadPopIndex(t) ==
    /\ \/ Calls(t) /\ hold[t] = "W"
       \/ At(t, "cp_load")
    /\ loaded' = [loaded EXCEPT ![t] = popIndex]
    /\ Begin(t)
    /\ Goto(t, "cp_cas")
    /\ UNCHANGED <<capacity, shared, hold, rgen, ridx, aborted>>

\* clearPopIndex called by a thread that holds no reservation, with any
\* 'endGeneration' and 'endIndex' that the BSLS_ASSERTs of the call admit;
\* 'rgen' and 'ridx' keep the two arguments for the steps of the call.
CP_LoadPopIndexWithEnd(t) ==
    /\ Calls(t) /\ hold[t] = "none"
    /\ \E endGeneration \in 0..d_maxGeneration, endIndex \in 0..(capacity - 1) :
           /\ rgen' = [rgen EXCEPT ![t] = endGeneration]
           /\ ridx' = [ridx EXCEPT ![t] = endIndex]
    /\ loaded' = [loaded EXCEPT ![t] = popIndex]
    /\ Begin(t)
    /\ Goto(t, "cp_cas")
    /\ UNCHANGED <<capacity, shared, hold, aborted>>

\* The call returns: the arguments of a caller without reservation are gone.
CP_ForgetEnd(t) ==
    IF hold[t] = "none"
    THEN /\ rgen' = [rgen EXCEPT ![t] = 0]
         /\ ridx' = [ridx EXCEPT ![t] = 0]
    ELSE UNCHANGED <<rgen, ridx>>

\* Mutant: the acquisition compares the generation and not the state.
CP_Acquired_GenerationOnly(compare, was) ==
    decodeGenerationFromElementState(compare) =
        decodeGenerationFromElementState(was)

CP_Acquired(compare, was) == compare = was

CP_TestAndSwapState(t) ==
    /\ At(t, "cp_cas")
    /\ LET endCombinedIndex == rgen[t] * capacity + ridx[t]
           currentIndex == loaded[t] % capacity
           currentGeneration == loaded[t] \div capacity
           compare == encodeElementState(currentGeneration, e_FULL)
           swap == encodeElementState(currentGeneration, e_READING)
           was == states[currentIndex]
           state == decodeStateFromElementState(was)
       IN  IF CP_Difference(loaded[t], endCombinedIndex) <= 0
           THEN /\ Return(t, "e_FAILURE")
                /\ CP_ForgetEnd(t)
                /\ UNCHANGED shared
           ELSE IF CP_Acquired(compare, was)
           THEN /\ states' = [states EXCEPT
                                ![currentIndex] = testAndSwap(was, compare, swap)]
                /\ Goto(t, "cp_adv")
                /\ UNCHANGED <<pushIndex, popIndex, loaded, ret, rgen, ridx>>
           ELSE /\ IF state = e_WRITING \/ state = e_FULL
                   THEN Goto(t, "cp_load")
                   ELSE Goto(t, "cp_bump")
                /\ UNCHANGED <<shared, loaded, ret, rgen, ridx>>
    /\ UNCHANGED <<capacity, hold, aborted>>

CP_BumpPopIndex(t) ==
    /\ At(t, "cp_bump")
    /\ popIndex' = testAndSwap(popIndex, loaded[t], nextCombinedIndex(loaded[t]))
    /\ loaded' = [loaded EXCEPT ![t] = popIndex]
    /\ Goto(t, "cp_cas")
    /\ UNCHANGED <<capacity, states, pushIndex, hold, rgen, ridx, ret,
                   aborted>>

CP_AdvancePopIndex(t) ==
    /\ At(t, "cp_adv")
    /\ popIndex' = testAndSwap(popIndex, loaded[t], nextCombinedIndex(loaded[t]))
    /\ Goto(t, "cp_store")
    /\ UNCHANGED <<capacity, states, pushIndex, loaded, hold, rgen, ridx, ret, aborted>>

\* Mutant: the disposed element is emptied at the generation after the next.
CP_StoreEmpty_SkipsGeneration(t) ==
    /\ At(t, "cp_store")
    /\ LET disposedIndex == loaded[t] % capacity
           disposedGeneration == loaded[t] \div capacity
       IN  states' = [states EXCEPT ![disposedIndex] =
                        encodeElementState(
                            nextGeneration(nextGeneration(disposedGeneration)),
                            e_EMPTY)]
    /\ Return(t, "e_SUCCESS")
    /\ CP_ForgetEnd(t)
    /\ UNCHANGED <<capacity, pushIndex, popIndex, hold, aborted>>

\* 'd_states[*disposedIndex] = ...': the disposed element is the one of the
\* loaded pop index.
CP_StoreEmpty(t) ==
    /\ At(t, "cp_store")
    /\ LET disposedIndex == loaded[t] % capacity
           disposedGeneration == loaded[t] \div capacity
       IN  states' = [states EXCEPT ![disposedIndex] =
                        encodeElementState(nextGeneration(disposedGeneration),
                                           e_EMPTY)]
    /\ Return(t, "e_SUCCESS")
    /\ CP_ForgetEnd(t)
    /\ UNCHANGED <<capacity, pushIndex, popIndex, hold, aborted>>

\* ----------------------------------------------- abortPushIndexReservation
\* The call's preconditions (its BSLS_ASSERTs) hold when it is made.
AB_LoadPopIndex(t) ==
    /\ Calls(t) /\ hold[t] = "W"
    /\ popIndex = rgen[t] * capacity + ridx[t]
    /\ decodeStateFromElementState(states[ridx[t]]) = e_WRITING
    /\ decodeGenerationFromElementState(states[ridx[t]]) = rgen[t]
    /\ loaded' = [loaded EXCEPT ![t] = popIndex]
    /\ Begin(t)
    /\ Goto(t, "ab_cas")
    /\ UNCHANGED <<capacity, shared, hold, rgen, ridx, aborted>>

AB_TestAndSwapPopIndex(t) ==
    /\ At(t, "ab_cas")
    /\ popIndex' = testAndSwap(popIndex, loaded[t], nextCombinedIndex(loaded[t]))
    /\ Goto(t, "ab_store")
    /\ UNCHANGED <<capacity, states, pushIndex, loaded, hold, rgen, ridx, ret, aborted>>

AB_StoreEmpty(t) ==
    /\ At(t, "ab_store")
    /\ states' = [states EXCEPT
                    ![ridx[t]] = encodeElementState(nextGeneration(rgen[t]), e_EMPTY)]
    /\ hold' = [hold EXCEPT ![t] = "none"]
    /\ rgen' = [rgen EXCEPT ![t] = 0]
    /\ ridx' = [ridx EXCEPT ![t] = 0]
    /\ Return(t, "none")
    /\ UNCHANGED <<capacity, pushIndex, popIndex, aborted>>

\* ------------------------------------------------------------------ length
\* Mutant: no test for a pop index that wrapped around after the load of the
\* push index.
LengthOf_NoWrapTest(combinedPushIndex, combinedPopIndex) ==
    LET difference == combinedPushIndex - combinedPopIndex
    IN  IF difference >= 0
        THEN difference
        ELSE IF difference < -(d_maxCombinedIndex \div 2)
        THEN Min(difference + d_maxCombinedIndex + 1, capacity)
        ELSE 0

\* The value length() computes from the two indices it loaded, and whether
\* the BSLS_ASSERT_OPT on its way holds.
LengthOf(combinedPushIndex, combinedPopIndex) ==
    LET difference == combinedPushIndex - combinedPopIndex
    IN  IF difference >= 0
        THEN IF difference > capacity THEN 0 ELSE difference
        ELSE IF difference < -(d_maxCombinedIndex \div 2)
        THEN Min(difference + d_maxCombinedIndex + 1, capacity)
        ELSE 0

LengthAssertHolds(combinedPushIndex, combinedPopIndex) ==
    LET difference == combinedPushIndex - combinedPopIndex
        circular == circularDifference(combinedPushIndex, combinedPopIndex,
                                       d_maxCombinedIndex + 1)
    IN  IF difference >= 0
        THEN difference > capacity => 0 > circular
        ELSE difference < -(d_maxCombinedIndex \div 2) => 0 < circular

L_LoadPushIndex(t) ==
    /\ Calls(t) /\ hold[t] = "none"
    /\ loaded' = [loaded EXCEPT ![t] = discardDisabledFlag(pushIndex)]
    /\ Begin(t)
    /\ Goto(t, "len_pop")
    /\ UNCHANGED <<capacity, shared, hold, rgen, ridx, aborted>>

\* length() called with a note, kept in 'ridx' up to the call's return, of
\* the number of elements that are not EMPTY when the push index is loaded.
L_LoadPushIndexCounting(t) ==
    /\ Calls(t) /\ hold[t] = "none"
    /\ loaded' = [loaded EXCEPT ![t] = discardDisabledFlag(pushIndex)]
    /\ ridx' = [ridx EXCEPT ![t] =
                  Cardinality({i \in DOMAIN states :
                      decodeStateFromElementState(states[i]) # e_EMPTY})]
    /\ Begin(t)
    /\ Goto(t, "len_pop")
    /\ UNCHANGED <<capacity, shared, hold, rgen, aborted>>

L_LoadPopIndex(t) ==
    /\ At(t, "len_pop")
    /\ \/ /\ ~LengthAssertHolds(loaded[t], popIndex)
          /\ aborted' = TRUE
          /\ UNCHANGED <<pc, loaded, ret, rgen, ridx>>
       \/ /\ ReturnValue(t, "length", LengthOf(loaded[t], popIndex))
          /\ CP_ForgetEnd(t)
          /\ UNCHANGED aborted
    /\ UNCHANGED <<capacity, shared, hold>>


Next ==
    \E t \in Threads :
        \/ RP_LoadPushIndex(t)
        \/ RP_TestAndSwapState(t)
        \/ RP_BumpPushIndex(t)
        \/ RP_AdvancePushIndex(t)
        \/ commitPushIndex(t)
        \/ PP_LoadPopIndex(t)
        \/ PP_TestAndSwapState(t)
        \/ PP_BumpPopIndex(t)
        \/ PP_AdvancePopIndex(t)
        \/ commitPopIndex(t)
        \/ D_LoadPushIndex(t)
        \/ D_TestAndSwapPushIndex(t)
        \/ E_LoadPushIndex(t)
        \/ E_TestAndSwapPushIndex(t)
        \/ isEnabled(t)
        \/ CP_LoadPopIndex(t)
        \/ CP_TestAndSwapState(t)
        \/ CP_BumpPopIndex(t)
        \/ CP_AdvancePopIndex(t)
        \/ CP_StoreEmpty(t)
        \/ AB_LoadPopIndex(t)
        \/ AB_TestAndSwapPopIndex(t)
        \/ AB_StoreEmpty(t)
        \/ L_LoadPushIndex(t)
        \/ L_LoadPopIndex(t)

Spec == Init /\ [][Next]_vars

\* The runs in which abortPushIndexReservation is never called.
NoAbortNext ==
    \E t \in Threads :
        \/ RP_LoadPushIndex(t)
        \/ RP_TestAndSwapState(t)
        \/ RP_BumpPushIndex(t)
        \/ RP_AdvancePushIndex(t)
        \/ commitPushIndex(t)
        \/ PP_LoadPopIndex(t)
        \/ PP_TestAndSwapState(t)
        \/ PP_BumpPopIndex(t)
        \/ PP_AdvancePopIndex(t)
        \/ commitPopIndex(t)
        \/ D_LoadPushIndex(t)
        \/ D_TestAndSwapPushIndex(t)
        \/ E_LoadPushIndex(t)
        \/ E_TestAndSwapPushIndex(t)
        \/ isEnabled(t)
        \/ CP_LoadPopIndex(t)
        \/ CP_TestAndSwapState(t)
        \/ CP_BumpPopIndex(t)
        \/ CP_AdvancePopIndex(t)
        \/ CP_StoreEmpty(t)
        \/ L_LoadPushIndex(t)
        \/ L_LoadPopIndex(t)

NoAbortSpec == Init /\ [][NoAbortNext]_vars

\* The single-threaded fill and drain: one thread pushes (reserves and
\* commits) until reservePushIndex returns e_QUEUE_FULL, then pops one
\* element (reserves and commits) and pushes again, and so on.
FillDrainNext ==
    \/ /\ pc[1] = "idle" => ret[1][1] # "e_QUEUE_FULL"
       /\ RP_LoadPushIndex(1)
    \/ RP_TestAndSwapState(1)
    \/ RP_AdvancePushIndex(1)
    \/ commitPushIndex(1)
    \/ /\ pc[1] = "idle" => ret[1][1] = "e_QUEUE_FULL"
       /\ PP_LoadPopIndex(1)
    \/ PP_TestAndSwapState(1)
    \/ PP_AdvancePopIndex(1)
    \/ commitPopIndex(1)

FillDrainSpec == Init /\ [][FillDrainNext]_vars

\* Thread 1 calls clearPopIndex with any end, over and over, while thread 2
\* pushes and pops.
ClearNext ==
    \/ CP_LoadPopIndexWithEnd(1)
    \/ /\ pc[1] = "cp_load"
       /\ CP_LoadPopIndex(1)
    \/ CP_TestAndSwapState(1)
    \/ CP_BumpPopIndex(1)
    \/ CP_AdvancePopIndex(1)
    \/ CP_StoreEmpty(1)
    \/ RP_LoadPushIndex(2)
    \/ RP_TestAndSwapState(2)
    \/ RP_AdvancePushIndex(2)
    \/ commitPushIndex(2)
    \/ PP_LoadPopIndex(2)
    \/ PP_TestAndSwapState(2)
    \/ PP_BumpPopIndex(2)
    \/ PP_AdvancePopIndex(2)
    \/ commitPopIndex(2)

ClearSpec == Init /\ [][ClearNext]_vars

\* Concurrent pushes on the new queue: every thread calls reservePushIndex at
\* most once, possibly after asking isEnabled(), and nothing else is called.
PushOnceNext ==
    \E t \in Threads :
        \/ /\ pc[t] = "idle" => ret[t][1] \in {"none", "true"}
           /\ RP_LoadPushIndex(t)
        \/ RP_TestAndSwapState(t)
        \/ RP_BumpPushIndex(t)
        \/ RP_AdvancePushIndex(t)
        \/ /\ ret[t][1] = "none"
           /\ isEnabled(t)

PushOnceSpec == Init /\ [][PushOnceNext]_vars

\* The calls on the enabled/disabled state next to pushes and pops, under a
\* fair scheduler: a thread that is inside a call takes its next step.
\* Whether and when an idle thread makes a call is left open.
FlagCall(t) ==
    \/ RP_LoadPushIndex(t)
    \/ RP_TestAndSwapState(t)
    \/ RP_BumpPushIndex(t)
    \/ RP_AdvancePushIndex(t)
    \/ commitPushIndex(t)
    \/ PP_LoadPopIndex(t)
    \/ PP_TestAndSwapState(t)
    \/ PP_BumpPopIndex(t)
    \/ PP_AdvancePopIndex(t)
    \/ commitPopIndex(t)
    \/ D_LoadPushIndex(t)
    \/ D_TestAndSwapPushIndex(t)
    \/ E_LoadPushIndex(t)
    \/ E_TestAndSwapPushIndex(t)
    \/ isEnabled(t)

FlagNext == \E t \in Threads : FlagCall(t)

FlagFairness ==
    \A t \in Threads : WF_vars(pc[t] # "idle" /\ FlagCall(t))

FlagFairSpec == Init /\ [][FlagNext]_vars /\ FlagFairness

\* Pushes and pops next to length() calls that note the number of elements
\* in use at their first load.
LengthNext ==
    \E t \in Threads :
        \/ RP_LoadPushIndex(t)
        \/ RP_TestAndSwapState(t)
        \/ RP_BumpPushIndex(t)
        \/ RP_AdvancePushIndex(t)
        \/ commitPushIndex(t)
        \/ PP_LoadPopIndex(t)
        \/ PP_TestAndSwapState(t)
        \/ PP_BumpPopIndex(t)
        \/ PP_AdvancePopIndex(t)
        \/ commitPopIndex(t)
        \/ L_LoadPushIndexCounting(t)
        \/ L_LoadPopIndex(t)

LengthSpec == Init /\ [][LengthNext]_vars

\* circularDifference called on its own by one thread, with any modulus up to
\* MaxModulo and any two values below it: 'loaded', 'rgen' and 'ridx' keep
\* the modulus, the minuend and the subtrahend, 'ret' the value returned.
CD_Call(t) ==
    /\ Calls(t) /\ hold[t] = "none"
    /\ \E modulo \in 1..MaxModulo :
           \E minuend, subtrahend \in 0..(modulo - 1) :
               /\ loaded' = [loaded EXCEPT ![t] = modulo]
               /\ rgen' = [rgen EXCEPT ![t] = minuend]
               /\ ridx' = [ridx EXCEPT ![t] = subtrahend]
               /\ ret' = [ret EXCEPT ![t] =
                             <<"circularDifference",
                               circularDifference(minuend, subtrahend, modulo)>>]
    /\ UNCHANGED <<capacity, shared, pc, hold, aborted>>

DifferenceNext == CD_Call(1)

DifferenceSpec == Init /\ [][DifferenceNext]_vars

\* The full-queue test of reservePushIndex applied to every pair of
\* generations, for every largest generation up to MaxGenerationTested; the
\* call keeps its arguments in 'loaded' (maxGeneration), 'rgen'
\* (currGeneration) and 'ridx' (elementGeneration).
FT_Call(t) ==
    /\ Calls(t) /\ hold[t] = "none"
    /\ \E maxGeneration \in 1..MaxGenerationTested :
           \E currGeneration, elementGeneration \in 0..maxGeneration :
               /\ loaded' = [loaded EXCEPT ![t] = maxGeneration]
               /\ rgen' = [rgen EXCEPT ![t] = currGeneration]
               /\ ridx' = [ridx EXCEPT ![t] = elementGeneration]
               /\ ret' = [ret EXCEPT ![t] =
                            <<"isOneGenerationBehind",
                              IF RP_FastFullTest(currGeneration,
                                                 elementGeneration,
                                                 maxGeneration)
                              THEN 1 ELSE 0>>]
    /\ UNCHANGED <<capacity, shared, pc, hold, aborted>>

FullTestNext == FT_Call(1)

FullTestSpec == Init /\ [][FullTestNext]_vars

\* The distance test of clearPopIndex applied to every loaded pop index and
\* every end; the call keeps the loaded index in 'loaded' and the end in
\* 'ridx'.
CT_Call(t) ==
    /\ Calls(t) /\ hold[t] = "none"
    /\ \E loadedCombinedIndex, endCombinedIndex \in 0..d_maxCombinedIndex :
           /\ loaded' = [loaded EXCEPT ![t] = loadedCombinedIndex]
           /\ ridx' = [ridx EXCEPT ![t] = endCombinedIndex]
           /\ ret' = [ret EXCEPT ![t] =
                        <<"clearDistance",
                          CP_Difference(loadedCombinedIndex, endCombinedIndex)>>]
    /\ UNCHANGED <<capacity, shared, pc, hold, rgen, aborted>>

DistanceNext == CT_Call(1)

DistanceSpec == Init /\ [][DistanceNext]_vars

\* Sequential calls: one thread pushes, pops and calls clearPopIndex, with
\* any end or with the push reservation it holds as the end.  The steps of
\* reservePushIndex and reservePopIndex that follow another thread's
\* acquisition are never taken by a thread alone.
SequentialNext ==
    \/ RP_LoadPushIndex(1)
    \/ RP_TestAndSwapState(1)
    \/ RP_AdvancePushIndex(1)
    \/ commitPushIndex(1)
    \/ PP_LoadPopIndex(1)
    \/ PP_TestAndSwapState(1)
    \/ PP_AdvancePopIndex(1)
    \/ commitPopIndex(1)
    \/ CP_LoadPopIndexWithEnd(1)
    \/ CP_LoadPopIndex(1)
    \/ CP_TestAndSwapState(1)
    \/ CP_BumpPopIndex(1)
    \/ CP_AdvancePopIndex(1)
    \/ CP_StoreEmpty(1)

SequentialSpec == Init /\ [][SequentialNext]_vars

\* numRepresentableGenerations applied to every supported capacity, for every
\* word width from MinWordBitsTested to MaxWordBitsTested; the call keeps the
\* width in 'loaded' and the capacity in 'ridx'.
NG_Call(t) ==
    /\ Calls(t) /\ hold[t] = "none"
    /\ \E wordBits \in MinWordBitsTested..MaxWordBitsTested :
           \E cap \in 1..(2 ^ (wordBits - 2)) :
               /\ loaded' = [loaded EXCEPT ![t] = wordBits]
               /\ ridx' = [ridx EXCEPT ![t] = cap]
               /\ ret' = [ret EXCEPT ![t] =
                            <<"numRepresentableGenerations",
                              numRepresentableGenerationsAt(wordBits, cap)>>]
    /\ UNCHANGED <<capacity, shared, pc, hold, rgen, aborted>>

GenerationsNext == NG_Call(1)

GenerationsSpec == Init /\ [][GenerationsNext]_vars

\* The cancelled push: thread 1 reserves a push index, calls clearPopIndex with
\* the reservation as the end until the call returns e_FAILURE, and then calls
\* abortPushIndexReservation; thread 2 pushes and pops.  A thread inside a
\* call takes its next step, thread 1 makes the next call of its sequence,
\* and thread 2 commits what it reserved.
AbortingCall ==
    \/ RP_LoadPushIndex(1)
    \/ RP_TestAndSwapState(1)
    \/ RP_BumpPushIndex(1)
    \/ RP_AdvancePushIndex(1)
    \/ /\ pc[1] = "idle" => ret[1][1] # "e_FAILURE"
       /\ CP_LoadPopIndex(1)
    \/ CP_TestAndSwapState(1)
    \/ CP_BumpPopIndex(1)
    \/ CP_AdvancePopIndex(1)
    \/ CP_StoreEmpty(1)
    \/ /\ ret[1][1] = "e_FAILURE"
       /\ AB_LoadPopIndex(1)
    \/ AB_TestAndSwapPopIndex(1)
    \/ AB_StoreEmpty(1)

AbortingOtherCall ==
    \/ RP_LoadPushIndex(2)
    \/ RP_TestAndSwapState(2)
    \/ RP_BumpPushIndex(2)
    \/ RP_AdvancePushIndex(2)
    \/ commitPushIndex(2)
    \/ PP_LoadPopIndex(2)
    \/ PP_TestAndSwapState(2)
    \/ PP_BumpPopIndex(2)
    \/ PP_AdvancePopIndex(2)
    \/ commitPopIndex(2)

AbortingNext == AbortingCall \/ AbortingOtherCall

AbortingFairness ==
    /\ WF_vars((pc[1] # "idle" \/ hold[1] = "W") /\ AbortingCall)
    /\ WF_vars(pc[2] # "idle" /\ AbortingOtherCall)
    /\ SF_vars(commitPushIndex(2))
    /\ SF_vars(commitPopIndex(2))

AbortingFairSpec == Init /\ [][AbortingNext]_vars /\ AbortingFairness

\* Pushes, pops and clearPopIndex under a fair scheduler: a thread that is
\* inside a call takes its next step, and a thread that holds a reservation
\* commits it; whether and when an idle thread makes another call is left
\* open.
ProgressCall(t) ==
    \/ RP_LoadPushIndex(t)
    \/ RP_TestAndSwapState(t)
    \/ RP_BumpPushIndex(t)
    \/ RP_AdvancePushIndex(t)
    \/ commitPushIndex(t)
    \/ PP_LoadPopIndex(t)
    \/ PP_TestAndSwapState(t)
    \/ PP_BumpPopIndex(t)
    \/ PP_AdvancePopIndex(t)
    \/ commitPopIndex(t)
    \/ CP_LoadPopIndex(t)
    \/ CP_TestAndSwapState(t)
    \/ CP_BumpPopIndex(t)
    \/ CP_AdvancePopIndex(t)
    \/ CP_StoreEmpty(t)

ProgressNext == \E t \in Threads : ProgressCall(t)

ProgressFairness ==
    \A t \in Threads :
        /\ WF_vars(pc[t] # "idle" /\ ProgressCall(t))
        /\ SF_vars(commitPushIndex(t))
        /\ SF_vars(commitPopIndex(t))

ProgressFairSpec == Init /\ [][ProgressNext]_vars /\ ProgressFairness

\* Pushes and pops in which the queue is never without a committed element
\* while a reservePopIndex call is under way: the call starts with a FULL
\* element in the queue, and no other thread takes the last FULL element
\* before the call has returned.
NumCommitted == Cardinality({i \in 0..(capacity - 1) :
                           decodeStateFromElementState(states[i]) = e_FULL})

InReservePopIndex(t) == pc[t] \in {"pp_load", "pp_cas", "pp_bump"}

KeepFullCall(t) ==
    \/ RP_LoadPushIndex(t)
    \/ RP_TestAndSwapState(t)
    \/ RP_BumpPushIndex(t)
    \/ RP_AdvancePushIndex(t)
    \/ commitPushIndex(t)
    \/ NumCommitted >= 1 /\ PP_LoadPopIndex(t)
    \/ /\ (\E u \in Threads \ {t} : InReservePopIndex(u)) =>
              \/ NumCommitted >= 2
              \/ states[loaded[t] % capacity] #
                     encodeElementState(loaded[t] \div capacity, e_FULL)
       /\ PP_TestAndSwapState(t)
    \/ PP_BumpPopIndex(t)
    \/ PP_AdvancePopIndex(t)
    \/ commitPopIndex(t)

KeepFullNext == \E t \in Threads : KeepFullCall(t)

KeepFullSpec == Init /\ [][KeepFullNext]_vars

\* Pushes, pops, disable and enable in which the queue is never without an
\* EMPTY element while a reservePushIndex call is under way: the call starts
\* with an EMPTY element in the queue, and no other thread takes the last
\* EMPTY element before the call has returned.
NumFree == Cardinality({i \in 0..(capacity - 1) :
                          decodeStateFromElementState(states[i]) = e_EMPTY})

InReservePushIndex(t) == pc[t] \in {"rp_load", "rp_cas", "rp_bump"}

KeepFreeCall(t) ==
    \/ NumFree >= 1 /\ RP_LoadPushIndex(t)
    \/ /\ (\E u \in Threads \ {t} : InReservePushIndex(u)) =>
              \/ NumFree >= 2
              \/ isDisabledFlagSet(loaded[t])
              \/ states[loaded[t] % capacity] #
                     encodeElementState(loaded[t] \div capacity, e_EMPTY)
       /\ RP_TestAndSwapState(t)
    \/ RP_BumpPushIndex(t)
    \/ RP_AdvancePushIndex(t)
    \/ commitPushIndex(t)
    \/ PP_LoadPopIndex(t)
    \/ PP_TestAndSwapState(t)
    \/ PP_BumpPopIndex(t)
    \/ PP_AdvancePopIndex(t)
    \/ commitPopIndex(t)
    \/ D_LoadPushIndex(t)
    \/ D_TestAndSwapPushIndex(t)
    \/ E_LoadPushIndex(t)
    \/ E_TestAndSwapPushIndex(t)

KeepFreeNext == \E t \in Threads : KeepFreeCall(t)

KeepFreeSpec == Init /\ [][KeepFreeNext]_vars

\* The calls that the statement about length() in a quiescent state names:
\* pushes, pops, disable and enable, and the length() calls themselves.
QuiescentCall(t) ==
    \/ RP_LoadPushIndex(t)
    \/ RP_TestAndSwapState(t)
    \/ RP_BumpPushIndex(t)
    \/ RP_AdvancePushIndex(t)
    \/ commitPushIndex(t)
    \/ PP_LoadPopIndex(t)
    \/ PP_TestAndSwapState(t)
    \/ PP_BumpPopIndex(t)
    \/ PP_AdvancePopIndex(t)
    \/ commitPopIndex(t)
    \/ D_LoadPushIndex(t)
    \/ D_TestAndSwapPushIndex(t)
    \/ E_LoadPushIndex(t)
    \/ E_TestAndSwapPushIndex(t)
    \/ L_LoadPushIndex(t)
    \/ L_LoadPopIndex(t)

QuiescentNext == \E t \in Threads : QuiescentCall(t)

QuiescentSpec == Init /\ [][QuiescentNext]_vars

\* =================================================================== claims
Slots == 0..(capacity - 1)

StateOf(i) == states[i] % 4

GenerationOf(i) == states[i] \div 4

\* The thread took a step of the call it executes (or made a one-step call).
Stepped(t) ==
    \/ pc'[t] # pc[t]
    \/ loaded'[t] # loaded[t]
    \/ hold'[t] # hold[t]
    \/ ret'[t] # ret[t]

\* The elements a thread owns for reading: from the successful testAndSwap
\* of reservePopIndex or clearPopIndex to the store that empties the element.
OwnsForReading(t, i) ==
    \/ hold[t] = "R" /\ ridx[t] = i
    \/ pc[t] \in {"cp_adv", "cp_store"} /\ loaded[t] % capacity = i

\* C1: writer exclusivity.  Two outstanding push reservations never name the
\* same element, and the element of an outstanding push reservation is in the
\* state WRITING at the reserved generation.
C1_WriterExclusivity ==
    /\ \A t1, t2 \in Threads :
         (t1 # t2 /\ hold[t1] = "W" /\ hold[t2] = "W") => ridx[t1] # ridx[t2]
    /\ \A t \in Threads :
         hold[t] = "W" => /\ StateOf(ridx[t]) = e_WRITING
                          /\ GenerationOf(ridx[t]) = rgen[t]

C1_Witness ==
    \E t1, t2 \in Threads :
        /\ t1 # t2
        /\ hold[t1] = "W" /\ hold[t2] = "W"
        /\ rgen[t1] = rgen[t2]
        /\ pc[t1] = "idle" /\ pc[t2] = "idle"

\* C2: reader exclusivity.  No element is owned for reading by two threads,
\* whether through reservePopIndex or through clearPopIndex, and an element
\* owned for reading is in the state READING.
C2_ReaderExclusivity ==
    /\ \A t1, t2 \in Threads : \A i \in Slots :
         (OwnsForReading(t1, i) /\ OwnsForReading(t2, i)) => t1 = t2
    /\ \A t \in Threads : \A i \in Slots :
         OwnsForReading(t, i) => StateOf(i) = e_READING

C2_Witness ==
    \E t1, t2 \in Threads :
        /\ hold[t1] = "R" /\ pc[t1] = "idle"
        /\ pc[t2] = "cp_store"
        /\ loaded[t2] % capacity # ridx[t1]

\* C3: every change of an element's word is a step of the cycle
\* EMPTY(g) -> WRITING(g) -> FULL(g) -> READING(g) -> EMPTY(g+1), or the
\* step WRITING(g) -> EMPTY(g+1) taken by abortPushIndexReservation.
C3_IsCycleStep(before, after) ==
    LET g == before \div 4
        nextG == (g + 1) % (d_maxGeneration + 1)
    IN  \/ before % 4 = e_EMPTY   /\ after = 4 * g + e_WRITING
        \/ before % 4 = e_WRITING /\ after = 4 * g + e_FULL
        \/ before % 4 = e_FULL    /\ after = 4 * g + e_READING
        \/ before % 4 = e_READING /\ after = 4 * nextG + e_EMPTY

C3_IsAbortStep(before, after) ==
    /\ before % 4 = e_WRITING
    /\ after = 4 * (((before \div 4) + 1) % (d_maxGeneration + 1)) + e_EMPTY
    /\ \E t \in Threads : pc[t] = "ab_store" /\ pc'[t] = "idle"

C3_SlotTransitions ==
    [][\A i \in Slots :
          states'[i] # states[i] =>
              \/ C3_IsCycleStep(states[i], states'[i])
              \/ C3_IsAbortStep(states[i], states'[i])]_vars

\* The push index has wrapped around, and an abortPushIndexReservation is
\* about to empty its element.
C3_Witness ==
    \E t \in Threads :
        /\ pushIndex % e_DISABLED_STATE_MASK < popIndex
        /\ pc[t] = "ab_store"
        /\ rgen[t] = d_maxGeneration

\* C4: the generation of an element changes only when the element becomes
\* EMPTY, and then to (g + 1) mod (maxGeneration + 1); it never changes
\* otherwise.
C4_GenerationSteps ==
    [][\A i \in Slots :
          LET g == states[i] \div 4
              gAfter == states'[i] \div 4
          IN  IF states'[i] # states[i] /\ states'[i] % 4 = e_EMPTY
              THEN gAfter = (IF g = d_maxGeneration THEN 0 ELSE g + 1)
              ELSE gAfter = g]_vars

C4_Witness ==
    \E i \in Slots :
        /\ GenerationOf(i) = 0 /\ StateOf(i) = e_WRITING
        /\ \E j \in Slots : GenerationOf(j) = d_maxGeneration
        /\ pushIndex % e_DISABLED_STATE_MASK < popIndex

\* C5: commitPushIndex(g, p) leaves element p at (g, FULL) and changes nothing
\* else; a FULL element changes only by the testAndSwap of a pop-side call,
\* to READING of its generation; commitPopIndex(g, p) leaves element p at
\* (nextGeneration(g), EMPTY) and changes nothing else.
C5_IsCommitPush(t) ==
    pc[t] = "idle" /\ pc'[t] = "idle" /\ hold[t] = "W" /\ hold'[t] = "none"

C5_IsCommitPop(t) ==
    pc[t] = "idle" /\ pc'[t] = "idle" /\ hold[t] = "R" /\ hold'[t] = "none"

C5_CommitEffects ==
    [][/\ \A t \in Threads :
            C5_IsCommitPush(t) =>
                /\ states' = [states EXCEPT ![ridx[t]] = 4 * rgen[t] + e_FULL]
                /\ pushIndex' = pushIndex /\ popIndex' = popIndex
       /\ \A t \in Threads :
            C5_IsCommitPop(t) =>
                /\ states' = [states EXCEPT ![ridx[t]] =
                                4 * ((rgen[t] + 1) % (d_maxGeneration + 1)) + e_EMPTY]
                /\ pushIndex' = pushIndex /\ popIndex' = popIndex
       /\ \A i \in Slots :
            (states[i] % 4 = e_FULL /\ states'[i] # states[i]) =>
                /\ states'[i] = states[i] - e_FULL + e_READING
                /\ \E t \in Threads :
                     /\ pc[t] \in {"pp_cas", "cp_cas"}
                     /\ pc'[t] \in {"pp_adv", "cp_adv"}]_vars

C5_Witness ==
    \E t \in Threads :
        /\ hold[t] = "R" /\ pc[t] = "idle" /\ rgen[t] = d_maxGeneration
        /\ \E i \in Slots : i # ridx[t] /\ StateOf(i) = e_FULL

\* C6: length() returns a value between 0 and the capacity, whatever the
\* other threads do between its load of the push index and its load of the
\* pop index.
C6_LengthInRange ==
    \A t \in Threads :
        ret[t][1] = "length" => (0 <= ret[t][2] /\ ret[t][2] <= capacity)

\* length() returned after the pop index wrapped past the push index it had
\* loaded.
C6_Witness ==
    \E t \in Threads :
        /\ ret[t][1] = "length" /\ ret[t][2] = capacity
        /\ pushIndex % e_DISABLED_STATE_MASK < popIndex
        /\ pushIndex >= e_DISABLED_STATE_MASK


\* C7: single-threaded fill and drain.  The first 'capacity' pushes succeed
\* at the positions 0, 1, ... of generation 0 and the next reservePushIndex
\* returns e_QUEUE_FULL; the pop that follows returns generation 0, position
\* 0, and then exactly one reservePushIndex succeeds, at position 0 of
\* generation 1, before e_QUEUE_FULL is returned again.  In general a push
\* succeeds exactly when an element is free, at the combined index that
\* follows the last one pushed, and no call retries.
NumFull == Cardinality({i \in Slots : StateOf(i) = e_FULL})

C7_FillDrain ==
    /\ pc[1] \notin {"rp_load", "rp_bump", "pp_load", "pp_bump"}
    /\ (pc[1] = "idle" /\ ~aborted) =>
         /\ ret[1][1] # "e_QUEUE_EMPTY"
         /\ ret[1][1] = "e_QUEUE_FULL" =>
                (hold[1] = "none" /\ NumFull = capacity)
         /\ hold[1] = "W" =>
                /\ ret[1][1] = "e_SUCCESS"
                /\ NumFull < capacity
                /\ rgen[1] * capacity + ridx[1] =
                       (popIndex + NumFull) % (d_maxCombinedIndex + 1)
         /\ hold[1] = "R" =>
                /\ ret[1][1] = "e_SUCCESS"
                /\ NumFull = capacity - 1
                /\ (rgen[1] * capacity + ridx[1] + 1) % (d_maxCombinedIndex + 1)
                       = popIndex
         /\ (hold[1] = "W" /\ popIndex = 0) =>
                (rgen[1] = 0 /\ ridx[1] = NumFull)
         /\ (hold[1] = "R" /\ popIndex = 1) =>
                (rgen[1] = 0 /\ ridx[1] = 0)
         /\ (hold[1] = "W" /\ popIndex = 1) =>
                (rgen[1] = 1 /\ ridx[1] = 0)

\* The queue is full again after the pop of (0, 0) and the push at (1, 0).
C7_Witness ==
    /\ pc[1] = "idle" /\ ret[1][1] = "e_QUEUE_FULL"
    /\ popIndex = 1
    /\ states[0] = 4 * 1 + e_FULL
    /\ capacity = MaxCapacity

\* C8: a reservePushIndex call that starts while the disabled bit is set
\* returns e_DISABLED_QUEUE, and its steps change no element and no index.
C8_StartedDisabled(t) == pc[t] = "rp_cas" /\ loaded[t] >= e_DISABLED_STATE_MASK

C8_DisabledPush ==
    [][\A t \in Threads :
          /\ (pc[t] = "idle" /\ pc'[t] = "rp_cas"
                  /\ pushIndex >= e_DISABLED_STATE_MASK) =>
                 (C8_StartedDisabled(t)' /\ shared' = shared)
          /\ (C8_StartedDisabled(t) /\ Stepped(t)) =>
                 /\ pc'[t] = "idle"
                 /\ ret'[t] = <<"e_DISABLED_QUEUE", 0>>
                 /\ hold'[t] = "none"
                 /\ shared' = shared]_vars

\* e_DISABLED_QUEUE was returned while every element was FULL, and while an
\* element was EMPTY.
C8_Witness ==
    \E t \in Threads :
        /\ pc[t] = "idle" /\ ret[t][1] = "e_DISABLED_QUEUE"
        /\ pushIndex >= e_DISABLED_STATE_MASK
        /\ NumFull = capacity

\* C9: disable() and enable() change only the disabled bit: the combined
\* index of the push index, the pop index and the elements are unchanged by
\* their steps; and a pop-side testAndSwap of a FULL element, and the commit
\* of a reservation, take place with the disabled bit set as without.
C9_InDisableOrEnable(t) == pc[t] \in {"dis_load", "dis_cas", "en_load", "en_cas"}

C9_DisabledBit == pushIndex \div e_DISABLED_STATE_MASK

C9_CombinedPushIndex == pushIndex % e_DISABLED_STATE_MASK

C9_DisableEnableFrame ==
    [][/\ \A t \in Threads :
            (Stepped(t) /\ (C9_InDisableOrEnable(t) \/ C9_InDisableOrEnable(t)')) =>
                /\ C9_CombinedPushIndex' = C9_CombinedPushIndex
                /\ popIndex' = popIndex
                /\ states' = states
       /\ C9_DisabledBit' # C9_DisabledBit =>
            /\ C9_CombinedPushIndex' = C9_CombinedPushIndex
            /\ popIndex' = popIndex
            /\ states' = states
       /\ \A t \in Threads :
            (C9_DisabledBit = 1 /\ pc[t] = "pp_cas" /\ Stepped(t)
                 /\ states[loaded[t] % capacity]
                        = 4 * (loaded[t] \div capacity) + e_FULL) =>
                /\ pc'[t] = "pp_adv"
                /\ states'[loaded[t] % capacity] = states[loaded[t] % capacity] + 1
       /\ \A t \in Threads :
            (C9_DisabledBit = 1 /\ pc[t] = "idle" /\ hold[t] # "none"
                 /\ hold'[t] = "none") =>
                states'[ridx[t]] # states[ridx[t]]]_vars

\* A pop reservation was just taken, and a push reservation is still to be
\* committed, with the queue disabled.
C9_Witness ==
    \E t1, t2 \in Threads :
        /\ pushIndex >= e_DISABLED_STATE_MASK
        /\ pc[t1] = "pp_adv"
        /\ hold[t2] = "W" /\ pc[t2] = "idle"


\* C10: disable() and enable() are idempotent and inverse to each other on
\* the disabled bit, and isEnabled() returns the negation of the bit.
C10_FlagSteps ==
    [][/\ (C9_DisabledBit = 0 /\ C9_DisabledBit' = 1) =>
              pushIndex' = pushIndex + e_DISABLED_STATE_MASK
       /\ (C9_DisabledBit = 1 /\ C9_DisabledBit' = 0) =>
              pushIndex' = pushIndex - e_DISABLED_STATE_MASK
       /\ (C9_DisabledBit = 1 /\ C9_DisabledBit' = 1) => pushIndex' = pushIndex
       /\ \A t \in Threads :
            /\ (pc[t] \in {"idle", "dis_load"} /\ pc'[t] = "dis_cas") =>
                   (C9_DisabledBit = 0 /\ shared' = shared)
            /\ (pc[t] = "dis_load" /\ pc'[t] = "idle") =>
                   (C9_DisabledBit = 1 /\ shared' = shared)
            /\ (pc[t] = "dis_cas" /\ pc'[t] = "idle") => C9_DisabledBit' = 1
            /\ (pc[t] \in {"idle", "en_load"} /\ pc'[t] = "en_cas") =>
                   (C9_DisabledBit = 1 /\ shared' = shared)
            /\ (pc[t] = "en_load" /\ pc'[t] = "idle") =>
                   (C9_DisabledBit = 0 /\ shared' = shared)
            /\ (pc[t] = "en_cas" /\ pc'[t] = "idle") => C9_DisabledBit' = 0
            /\ (Stepped(t) /\ ret'[t][1] = "true") => C9_DisabledBit = 0
            /\ (Stepped(t) /\ ret'[t][1] = "false") => C9_DisabledBit = 1
            /\ (Stepped(t) /\ pc[t] = "idle" /\ pc'[t] = "idle"
                    /\ hold'[t] = hold[t]) =>
                   shared' = shared]_vars

\* C10, as stated: every disable() and every enable() that has started
\* returns (or the program has ended on a failed assertion).
C10_LoopsTerminate ==
    \A t \in Threads :
        C9_InDisableOrEnable(t) ~> (pc[t] = "idle" \/ aborted)

\* C10, amended: every disable() and every enable() that has started
\* returns, unless the push index keeps being changed by other calls.
C10_LoopsTerminateWhenQuiet ==
    (<>[][pushIndex' = pushIndex]_vars) =>
        (\A t \in Threads :
            C9_InDisableOrEnable(t) ~> (pc[t] = "idle" \/ aborted))

C10_FlagAlgebra == C10_FlagSteps /\ C10_LoopsTerminateWhenQuiet

\* An enable() is about to clear the bit that a disable() set, while the
\* other thread is in the loop of disable() after a lost testAndSwap.
C10_Witness ==
    \E t1, t2 \in Threads :
        /\ pc[t1] = "en_cas" /\ loaded[t1] = pushIndex
        /\ pc[t2] = "dis_load"
        /\ pushIndex > e_DISABLED_STATE_MASK


\* C11: the threads that call reservePushIndex on the new queue, with no
\* pop-side call: once the k calls made have returned, min(k, capacity) of
\* them hold a reservation, at pairwise distinct indices of generation 0,
\* and the others returned e_QUEUE_FULL.
C11_Called == {t \in Threads : pc[t] # "idle" \/ ret[t][1] \notin {"none", "true"}}

C11_Succeeded == {t \in Threads : pc[t] = "idle" /\ ret[t][1] = "e_SUCCESS"}

C11_ConcurrentPushes ==
    /\ \A t \in C11_Succeeded : hold[t] = "W" /\ rgen[t] = 0
    /\ \A t1, t2 \in C11_Succeeded : t1 # t2 => ridx[t1] # ridx[t2]
    /\ \A t \in Threads : pc[t] = "idle" =>
           ret[t][1] \in {"none", "true", "e_SUCCESS", "e_QUEUE_FULL"}
    /\ (\A t \in Threads : pc[t] = "idle") =>
           Cardinality(C11_Succeeded) = Min(Cardinality(C11_Called), capacity)

\* Two threads called on a queue of capacity 1: one holds (0, 0), the other
\* was told that the queue is full.
C11_Witness ==
    /\ capacity = 1
    /\ \E t1, t2 \in Threads :
        /\ pc[t1] = "idle" /\ ret[t1] = <<"e_SUCCESS", 0>>
        /\ hold[t1] = "W" /\ rgen[t1] = 0 /\ ridx[t1] = 0
        /\ pc[t2] = "idle" /\ ret[t2] = <<"e_QUEUE_FULL", 0>>


\* The end of the clearPopIndex call that thread t executes.
CP_End(t) == rgen[t] * capacity + ridx[t]

\* C12: a clearPopIndex call whose end is the pop index it loaded returns
\* e_FAILURE and changes no element and no index.
C12_ClearAtEndFails ==
    [][\A t \in Threads :
          (pc[t] = "cp_cas" /\ Stepped(t) /\ loaded[t] = CP_End(t)) =>
              /\ pc'[t] = "idle"
              /\ ret'[t] = <<"e_FAILURE", 0>>
              /\ shared' = shared]_vars

\* C13: a clearPopIndex call that loaded a pop index at or after its end
\* (here: up to 'capacity' indices after it) returns e_FAILURE and changes no
\* element and no index; so it disposes of no element at or after its end.
C13_AtOrAfterEnd(t) ==
    loaded[t] >= CP_End(t) /\ loaded[t] <= CP_End(t) + capacity

C13_ClearStopsAtEnd ==
    [][\A t \in Threads :
          /\ (pc[t] = "cp_cas" /\ Stepped(t) /\ C13_AtOrAfterEnd(t)) =>
                 /\ pc'[t] = "idle"
                 /\ ret'[t] = <<"e_FAILURE", 0>>
                 /\ shared' = shared
          /\ (pc[t] = "cp_cas" /\ pc'[t] = "cp_adv") => ~C13_AtOrAfterEnd(t)]_vars


\* What a reservePushIndex call returns that runs alone on the elements
\* 'elements', starting from the combined index 'combinedIndex' of the push
\* index, within 'passes' passes of its loop.
RECURSIVE C14_PushAlone(_, _, _)
C14_PushAlone(elements, combinedIndex, passes) ==
    LET currGeneration == combinedIndex \div capacity
        was == elements[combinedIndex % capacity]
    IN  IF passes = 0
        THEN <<"none", 0>>
        ELSE IF RP_Acquired(encodeElementState(currGeneration, e_EMPTY), was)
        THEN <<"e_SUCCESS", combinedIndex>>
        ELSE IF RP_IsOneGenerationBehind(currGeneration,
                                         decodeGenerationFromElementState(was))
        THEN <<"e_QUEUE_FULL", 0>>
        ELSE C14_PushAlone(elements, nextCombinedIndex(combinedIndex),
                           passes - 1)

\* No other thread is in a call or holds a reservation.
C14_OthersQuiet(t) ==
    \A u \in Threads \ {t} : pc[u] = "idle" /\ hold[u] = "none"

\* C14: abortPushIndexReservation(g, p) moves the pop index to the combined
\* index after (g, p), stores EMPTY at the next generation in element p, and
\* changes neither the push index nor another element; when it returns with
\* no other call in progress, no other element in use and the pop index just
\* after (g, p), the length is what it was before the reservation (0) and a
\* reservePushIndex call reserves the combined index after (g, p).
C14_AbortEffects ==
    [][\A t \in Threads :
          /\ (pc[t] = "idle" /\ pc'[t] = "ab_cas") =>
                 (popIndex = rgen[t] * capacity + ridx[t] /\ shared' = shared)
          /\ (pc[t] = "ab_cas" /\ Stepped(t)) =>
                 /\ popIndex' = nextCombinedIndex(rgen[t] * capacity + ridx[t])
                 /\ pushIndex' = pushIndex
                 /\ states' = states
          /\ (pc[t] = "ab_store" /\ Stepped(t)) =>
                 /\ states' = [states EXCEPT ![ridx[t]] =
                        encodeElementState(nextGeneration(rgen[t]), e_EMPTY)]
                 /\ pushIndex' = pushIndex
                 /\ popIndex' = popIndex
                 /\ pc'[t] = "idle" /\ hold'[t] = "none"
          /\ (pc[t] = "ab_store" /\ Stepped(t) /\ C14_OthersQuiet(t)
                  /\ popIndex = nextCombinedIndex(rgen[t] * capacity + ridx[t])
                  /\ \A i \in Slots \ {ridx[t]} : StateOf(i) = e_EMPTY) =>
                 /\ LengthOf(discardDisabledFlag(pushIndex), popIndex) = 0
                 /\ C14_PushAlone(states', discardDisabledFlag(pushIndex),
                                  d_maxCombinedIndex + 2)
                        = <<"e_SUCCESS",
                            nextCombinedIndex(rgen[t] * capacity + ridx[t])>>]_vars

\* The number of push reservations granted so far on element i, modulo the
\* number of generations: an element that is EMPTY at generation g has been
\* granted g times, one in another state once more.
C15_Granted(i) ==
    IF StateOf(i) = e_EMPTY THEN GenerationOf(i)
                            ELSE nextGeneration(GenerationOf(i))

\* The combined indices that can follow the last one granted, read off the
\* elements: (g, p) such that the elements before p have been granted once
\* more than g times and the elements from p on g times.
C15_NextToGrant ==
    {combinedIndex \in 0..d_maxCombinedIndex :
        LET generation == combinedIndex \div capacity
            index == combinedIndex % capacity
        IN  /\ \A i \in Slots : i < index =>
                   C15_Granted(i) = nextGeneration(generation)
            /\ \A i \in Slots : i >= index => C15_Granted(i) = generation}

\* The step of thread t is the successful testAndSwap of reservePushIndex on
\* an element.
C15_Grants(t) ==
    pc[t] = "rp_cas" /\ pc'[t] = "rp_adv"

\* C15: push reservations are granted in consecutive combined-index order: a
\* successful element testAndSwap of reservePushIndex is at the combined
\* index that follows the one of the previous successful testAndSwap (the
\* first at 0), and the next one to grant is then the following index; no
\* other step changes which index is next.
C15_PushOrder ==
    [][/\ \A t \in Threads :
              C15_Grants(t) =>
                  /\ C15_NextToGrant = {loaded[t]}
                  /\ C15_NextToGrant' = {nextCombinedIndex(loaded[t])}
       /\ (\A t \in Threads : ~C15_Grants(t)) =>
              C15_NextToGrant' = C15_NextToGrant]_vars

\* The number of pop-side reservations granted so far on element i, modulo
\* the number of generations, when no reservation has been aborted: an
\* element that is READING at generation g has been granted g + 1 times, one
\* in another state g times.
C16_Taken(i) ==
    IF StateOf(i) = e_READING THEN nextGeneration(GenerationOf(i))
                              ELSE GenerationOf(i)

\* The combined indices that can follow the last one granted to the pop
\* side, read off the elements.
C16_NextToTake ==
    {combinedIndex \in 0..d_maxCombinedIndex :
        LET generation == combinedIndex \div capacity
            index == combinedIndex % capacity
        IN  /\ \A i \in Slots : i < index =>
                   C16_Taken(i) = nextGeneration(generation)
            /\ \A i \in Slots : i >= index => C16_Taken(i) = generation}

\* The step of thread t is the successful testAndSwap of reservePopIndex or
\* clearPopIndex on an element.
C16_Takes(t) ==
    \/ pc[t] = "pp_cas" /\ pc'[t] = "pp_adv"
    \/ pc[t] = "cp_cas" /\ pc'[t] = "cp_adv"

\* C16: FIFO by element, in runs without abortPushIndexReservation: the
\* combined indices granted by reservePopIndex and clearPopIndex, in the
\* order of their element testAndSwap, are 0, 1, 2, ... like those granted
\* by reservePushIndex, and each is granted on an element that has been
\* granted to a push before: the k-th pop-side grant is the k-th push grant.
C16_FifoByElement ==
    [][/\ \A t \in Threads :
              C16_Takes(t) =>
                  /\ C16_NextToTake = {loaded[t]}
                  /\ C16_NextToTake' = {nextCombinedIndex(loaded[t])}
                  /\ C15_NextToGrant # {loaded[t]}
       /\ (\A t \in Threads : ~C16_Takes(t)) =>
              C16_NextToTake' = C16_NextToTake
       /\ \A t \in Threads :
              C15_Grants(t) => C15_NextToGrant = {loaded[t]}]_vars

\* C17: a pop-side reservation is granted on a committed element only: the
\* successful element testAndSwap of reservePopIndex and of clearPopIndex
\* finds the element FULL at the generation of the index it loaded, held by
\* no thread, and makes it READING (for reservePopIndex, with the caller as
\* its holder); and an element becomes FULL
\* only by commitPushIndex of the thread that holds its push reservation.
C17_PopOnCommitted ==
    [][/\ \A t \in Threads :
              C16_Takes(t) =>
                  LET generation == loaded[t] \div capacity
                      index == loaded[t] % capacity
                  IN  /\ states[index] = encodeElementState(generation, e_FULL)
                      /\ \A u \in Threads :
                             hold[u] # "none" => ridx[u] # index
                      /\ states'[index] =
                             encodeElementState(generation, e_READING)
                      /\ pc[t] = "pp_cas" =>
                             /\ hold'[t] = "R"
                             /\ rgen'[t] = generation /\ ridx'[t] = index
       /\ \A i \in Slots :
              (states'[i] # states[i]
                   /\ decodeStateFromElementState(states'[i]) = e_FULL) =>
                  \E t \in Threads :
                      /\ pc[t] = "idle" /\ hold[t] = "W" /\ ridx[t] = i
                      /\ states[i] = encodeElementState(rgen[t], e_WRITING)
                      /\ states'[i] = encodeElementState(rgen[t], e_FULL)
                      /\ hold'[t] = "none"]_vars

\* reservePopIndex has returned an element of generation 1 to one thread
\* and clearPopIndex has just taken the next element from another.
C17_Witness ==
    \E t, u \in Threads :
        /\ pc[t] = "idle" /\ ret[t] = <<"e_SUCCESS", 0>> /\ hold[t] = "R"
        /\ rgen[t] = 1
        /\ states[ridx[t]] = encodeElementState(1, e_READING)
        /\ pc[u] = "cp_adv"
        /\ states[loaded[u] % capacity] =
               encodeElementState(loaded[u] \div capacity, e_READING)
        /\ loaded[u] % capacity # ridx[t]

\* C18: an element is not handed to a producer while its previous occupant
\* is owned: the successful element testAndSwap of reservePushIndex finds
\* the element EMPTY at the generation of the index it loaded (not WRITING,
\* FULL or READING) and held by no thread, and an element becomes EMPTY, at
\* the next generation, only by commitPopIndex of the thread holding its pop
\* reservation, by the store of the clearPopIndex call that took it, or by
\* abortPushIndexReservation of the thread holding its push reservation.
C18_PushOnReleased ==
    [][/\ \A t \in Threads :
              C15_Grants(t) =>
                  LET generation == loaded[t] \div capacity
                      index == loaded[t] % capacity
                  IN  /\ states[index] = encodeElementState(generation, e_EMPTY)
                      /\ \A u \in Threads :
                             hold[u] # "none" => ridx[u] # index
                      /\ \A u \in Threads :
                             pc[u] \in {"cp_adv", "cp_store"} =>
                                 loaded[u] % capacity # index
                      /\ states'[index] =
                             encodeElementState(generation, e_WRITING)
                      /\ hold'[t] = "W"
                      /\ rgen'[t] = generation /\ ridx'[t] = index
       /\ \A i \in Slots :
              (states'[i] # states[i]
                   /\ decodeStateFromElementState(states'[i]) = e_EMPTY) =>
                  /\ states'[i] =
                         encodeElementState(nextGeneration(GenerationOf(i)),
                                            e_EMPTY)
                  /\ \E t \in Threads :
                         \/ /\ pc[t] = "idle" /\ hold[t] = "R" /\ ridx[t] = i
                            /\ states[i] =
                                   encodeElementState(rgen[t], e_READING)
                            /\ hold'[t] = "none"
                         \/ /\ pc[t] = "cp_store" /\ pc'[t] = "idle"
                            /\ loaded[t] % capacity = i
                            /\ states[i] =
                                   encodeElementState(loaded[t] \div capacity,
                                                      e_READING)
                         \/ /\ pc[t] = "ab_store" /\ hold[t] = "W"
                            /\ ridx[t] = i
                            /\ states[i] =
                                   encodeElementState(rgen[t], e_WRITING)
                            /\ hold'[t] = "none"]_vars

\* reservePushIndex has returned an element at generation 1 while another
\* element is still owned by a consumer.
C18_Witness ==
    \E t, u \in Threads :
        /\ pc[t] = "idle" /\ ret[t] = <<"e_SUCCESS", 0>> /\ hold[t] = "W"
        /\ rgen[t] = 1
        /\ states[ridx[t]] = encodeElementState(1, e_WRITING)
        /\ hold[u] = "R" /\ ridx[u] # ridx[t]

\* The circular distance from the pop index to the push index without its
\* disabled flag.
C19_Distance ==
    (discardDisabledFlag(pushIndex) - popIndex) % (d_maxCombinedIndex + 1)

\* C19: in every reachable state the circular distance from the pop index to
\* the push index is at most the capacity.
C19_DistanceAtMostCapacity == C19_Distance <= capacity

\* Thread t is inside reservePushIndex, reservePopIndex or clearPopIndex.
C20_InCall(t) ==
    pc[t] \in {"rp_load", "rp_cas", "rp_bump", "rp_adv",
               "pp_load", "pp_cas", "pp_bump", "pp_adv",
               "cp_load", "cp_cas", "cp_bump", "cp_adv", "cp_store"}

\* C20: under a fair scheduler and with every reservation committed, every
\* call of reservePushIndex, reservePopIndex and clearPopIndex returns (or
\* the program has ended on a failed assertion).
C20_CallsReturn ==
    \A t \in Threads : C20_InCall(t) ~> (pc[t] = "idle" \/ aborted)

\* C21: length() never overestimates: the value it returns is at most the
\* number of elements that were not EMPTY when it loaded the push index
\* (noted in 'ridx' by the call), whatever the other threads do between its
\* two loads.
C21_NeverOverestimates ==
    [][\A t \in Threads :
           (pc[t] = "len_pop" /\ pc'[t] = "idle") => ret'[t][2] <= ridx[t]]_vars

C24_NoAssertionFails == ~aborted

\* C25: the full-queue test of reservePushIndex says 'one generation behind'
\* exactly when circularDifference(currGeneration, elementGeneration,
\* maxGeneration + 1) is 1, for every pair of generations in 0..maxGeneration
\* and every maxGeneration >= 1.
C25_FastTestIsCircularDifference ==
    \A t \in Threads :
        ret[t][1] = "isOneGenerationBehind" =>
            ((ret[t][2] = 1) <=>
                (1 = circularDifference(rgen[t], ridx[t], loaded[t] + 1)))

\* The computation the note in length() calls logically equivalent.
C26_Reference(combinedPushIndex, combinedPopIndex) ==
    LET difference == circularDifference(combinedPushIndex, combinedPopIndex,
                                         d_maxCombinedIndex + 1)
    IN  IF difference < 0 THEN 0
        ELSE IF difference >= capacity THEN capacity
        ELSE difference

\* C26: for the push index and the pop index that a call of length() loaded,
\* in that order, the value it returns is the one of the reference
\* computation: the circular difference of the two, 0 if negative, capacity
\* if capacity or more.
C26_LengthIsReference ==
    [][\A t \in Threads :
           (pc[t] = "len_pop" /\ pc'[t] = "idle") =>
               ret'[t][2] = C26_Reference(loaded[t], popIndex)]_vars

\* C27: the distance clearPopIndex computes from a loaded pop index c to an
\* end e is <= 0 exactly when circularDifference(e, c, maxCombinedIndex + 1)
\* is <= 0, for every c and e in 0..maxCombinedIndex.
C27_DistanceTestIsCircular ==
    \A t \in Threads :
        ret[t][1] = "clearDistance" =>
            ((ret[t][2] <= 0) <=>
                (circularDifference(ridx[t], loaded[t],
                                    d_maxCombinedIndex + 1) <= 0))

\* The end of the clearPopIndex call of thread t is strictly ahead of the pop
\* index.
C28_EndAhead(t) ==
    circularDifference(rgen[t] * capacity + ridx[t], popIndex,
                       d_maxCombinedIndex + 1) > 0

\* reservePopIndex would return e_QUEUE_EMPTY: the element at the pop index is
\* EMPTY or of another generation.
C28_PopWouldBeEmpty ==
    LET was == states[popIndex % capacity]
    IN  \/ decodeGenerationFromElementState(was) # popIndex \div capacity
        \/ decodeStateFromElementState(was) = e_EMPTY

\* C28: in sequential calls, clearPopIndex with an end strictly ahead of the
\* pop index does what reservePopIndex and commitPopIndex do: it changes
\* neither the pop index nor an element when reservePopIndex would return
\* e_QUEUE_EMPTY; otherwise it takes the FULL element at the pop index, moves
\* the pop index to the next combined index and leaves that element EMPTY at
\* the next generation.
C28_ClearIsReserveAndCommit ==
    [][\A t \in Threads :
           /\ (/\ pc[t] \in {"cp_cas", "cp_bump"}
               /\ C28_EndAhead(t)
               /\ C28_PopWouldBeEmpty) =>
                  (popIndex' = popIndex /\ states' = states)
           /\ (pc[t] = "cp_cas" /\ pc'[t] = "cp_adv") =>
                  /\ loaded[t] = popIndex
                  /\ states[popIndex % capacity] =
                         encodeElementState(popIndex \div capacity, e_FULL)
           /\ (pc[t] = "cp_adv" /\ pc'[t] = "cp_store") =>
                  popIndex' = nextCombinedIndex(loaded[t])
           /\ (pc[t] = "cp_store" /\ pc'[t] = "idle") =>
                  states' = [states EXCEPT ![loaded[t] % capacity] =
                                encodeElementState(
                                    nextGeneration(loaded[t] \div capacity),
                                    e_EMPTY)]]_vars

\* C29: the pop index moves before the element is freed: the step of
\* commitPopIndex, clearPopIndex or abortPushIndexReservation that stores
\* (g', EMPTY) in element p, taken at generation g, leaves a pop index other
\* than g * capacity + p, and in every state an EMPTY element of a
\* generation after 0 (one that was freed) is not the one the pop index
\* designates at the generation before.
C29_PopIndexMovesBeforeFree ==
    [][\A p \in Slots :
           /\ (/\ StateOf(p) # e_EMPTY
               /\ states'[p] = encodeElementState(
                                    nextGeneration(GenerationOf(p)), e_EMPTY))
                  => popIndex' # GenerationOf(p) * capacity + p
           /\ (states'[p] % 4 = e_EMPTY /\ states'[p] \div 4 # 0)
                  => popIndex' # (states'[p] \div 4 - 1) * capacity + p]_vars

\* C30: when reservePushIndex returns e_SUCCESS with combined index c, the
\* push index without its disabled flag is no longer c, whether the
\* testAndSwap that advances it succeeded or failed, also when disable() or
\* enable() ran during the call.
C30_PushIndexLeftReserved ==
    [][\A t \in Threads :
           (pc[t] = "rp_adv" /\ pc'[t] = "idle") =>
               discardDisabledFlag(pushIndex') #
                   discardDisabledFlag(loaded[t])]_vars

\* The element that the reservePushIndex call of thread t is about to
\* examine, and the generation of the push index it loaded.
C31_Candidate(t) == states[discardDisabledFlag(loaded[t]) % capacity]

C31_CandidateGeneration(t) == discardDisabledFlag(loaded[t]) \div capacity

\* The candidate is exactly one generation behind the loaded push index.
C31_OneGenerationBehind(t) ==
    /\ ~isDisabledFlagSet(loaded[t])
    /\ nextGeneration(decodeGenerationFromElementState(C31_Candidate(t)))
           = C31_CandidateGeneration(t)

\* C31: a pass of reservePushIndex that finds its candidate one generation
\* behind and READING goes back to reload the push index, without a return
\* value, a change of the push index or of an element, and without ending the
\* program; e_QUEUE_FULL is returned only on a candidate one generation
\* behind in a state other than READING.
C31_ReadingMeansRetry ==
    [][\A t \in Threads :
           /\ (/\ pc[t] = "rp_cas"
               /\ C31_OneGenerationBehind(t)
               /\ decodeStateFromElementState(C31_Candidate(t)) = e_READING) =>
                  /\ pc'[t] # pc[t] =>
                         /\ pc'[t] = "rp_load"
                         /\ ret'[t] = ret[t]
                         /\ shared' = shared
                  /\ aborted' =>
                         1 = circularDifference(
                                 C31_CandidateGeneration(t),
                                 decodeGenerationFromElementState(C31_Candidate(t)),
                                 d_maxGeneration + 1)
           /\ (/\ pc[t] = "rp_cas"
               /\ pc'[t] = "idle"
               /\ ret'[t][1] = "e_QUEUE_FULL") =>
                  /\ C31_OneGenerationBehind(t)
                  /\ decodeStateFromElementState(C31_Candidate(t)) # e_READING]_vars

\* C32: for every capacity from 1 to the maximum capacity, a quarter of the
\* range of the word, numRepresentableGenerations(capacity) is the smaller of
\* (half the range of the word) div capacity and a quarter of the range, and
\* is at least 2; the largest combined index, generations * capacity - 1,
\* is below the disabled bit.  The function of the model is the one of the
\* model's word width.
C32_AtLeastTwoGenerations ==
    /\ \A t \in Threads :
           ret[t][1] = "numRepresentableGenerations" =>
               LET half == 2 ^ (loaded[t] - 1)
                   quarter == 2 ^ (loaded[t] - 2)
                   generations == ret[t][2]
               IN  /\ generations =
                          (IF half \div ridx[t] <= quarter
                           THEN half \div ridx[t] ELSE quarter)
                   /\ generations >= 2
                   /\ generations * ridx[t] - 1 < half
    /\ \A cap \in 1..e_MAX_CAPACITY :
           numRepresentableGenerations(cap) =
               numRepresentableGenerationsAt(WordBits, cap)

\* The maximum capacity of a width: exactly two generations.
C32_Witness ==
    \E t \in Threads :
        /\ ret[t] = <<"numRepresentableGenerations", 2>>
        /\ loaded[t] = MaxWordBitsTested
        /\ ridx[t] = 2 ^ (MaxWordBitsTested - 2)

\* Thread t holds a push reservation, its clearPopIndex calls have ended with
\* e_FAILURE, and the BSLS_ASSERTs of abortPushIndexReservation hold: the pop
\* index is the reserved combined index and the element is WRITING at the
\* reserved generation.
C33_ReadyToAbort(t) ==
    /\ hold[t] = "W"
    /\ pc[t] = "idle"
    /\ ret[t][1] = "e_FAILURE"
    /\ popIndex = rgen[t] * capacity + ridx[t]
    /\ states[ridx[t]] = encodeElementState(rgen[t], e_WRITING)

\* C33: a thread that holds a push reservation and calls clearPopIndex with it
\* until the call returns e_FAILURE gets there (unless the program ends on a
\* failed assertion), and from the return of e_FAILURE up to its
\* abortPushIndexReservation call the pop index is the reserved combined
\* index and the element is still its own, WRITING.
C33_ClearReachesReservation ==
    /\ [](\A t \in Threads :
             (hold[t] = "W" /\ pc[t] = "idle" /\ ret[t][1] = "e_FAILURE")
                 => C33_ReadyToAbort(t))
    /\ \A t \in Threads :
           (hold[t] = "W" /\ pc[t] \in {"cp_load", "cp_cas", "cp_bump", "cp_adv", "cp_store"})
               ~> (C33_ReadyToAbort(t) \/ aborted)

\* C34: a reservePushIndex or reservePopIndex call that does not obtain an
\* element writes no element state and neither output: each of its steps
\* leaves 'states' and the caller's generation and index alone and changes at
\* most one index, which it advances by one; a call that returns
\* e_QUEUE_FULL, e_DISABLED_QUEUE or e_QUEUE_EMPTY has obtained nothing, and
\* a call that has obtained an element returns e_SUCCESS.
C34_InReserveCall(t) ==
    \/ pc[t] \in {"rp_load", "rp_cas", "rp_bump", "pp_load", "pp_cas", "pp_bump"}
    \/ pc[t] = "idle" /\ pc'[t] \in {"rp_cas", "pp_cas"}

C34_FailureStatus == {"e_QUEUE_FULL", "e_DISABLED_QUEUE", "e_QUEUE_EMPTY"}

C34_FailedReserveWritesNothing ==
    [][\A t \in Threads :
           /\ (pc'[t] # pc[t] /\ C34_InReserveCall(t) /\ hold'[t] = hold[t]) =>
                  /\ states' = states
                  /\ rgen'[t] = rgen[t] /\ ridx'[t] = ridx[t]
                  /\ pushIndex' # pushIndex =>
                         /\ pc[t] = "rp_bump" /\ popIndex' = popIndex
                         /\ pushIndex' = nextCombinedIndex(pushIndex)
                  /\ popIndex' # popIndex =>
                         /\ pc[t] = "pp_bump" /\ pushIndex' = pushIndex
                         /\ popIndex' = nextCombinedIndex(popIndex)
           /\ (pc'[t] # pc[t] /\ pc'[t] = "idle" /\ ret'[t][1] \in C34_FailureStatus) =>
                  /\ pc[t] \in {"rp_cas", "pp_cas"}
                  /\ hold[t] = "none" /\ hold'[t] = "none"
           /\ (pc'[t] # pc[t] /\ pc[t] \in {"rp_adv", "pp_adv"}) =>
                  /\ ret'[t][1] = "e_SUCCESS" /\ hold'[t] \in {"W", "R"}
                  /\ states' = states]_vars

C34_Witness ==
    /\ \E t \in Threads :
           /\ pc[t] = "idle" /\ hold[t] = "none" /\ ret[t][1] = "e_QUEUE_FULL"
    /\ \E t \in Threads :
           /\ pc[t] = "idle" /\ hold[t] = "none" /\ ret[t][1] = "e_QUEUE_EMPTY"
    /\ \E i \in 0..(capacity - 1) : decodeStateFromElementState(states[i]) = e_FULL

\* C35: reservePopIndex returns e_QUEUE_EMPTY only if at some instant of the
\* call no element was FULL; so, in the runs in which a FULL element is in
\* the queue from the start of every reservePopIndex call to its return, no
\* call returns e_QUEUE_EMPTY.
C35_FullThroughoutCall ==
    \A t \in Threads : InReservePopIndex(t) => NumCommitted >= 1

C35_NoSpuriousQueueEmpty ==
    /\ C35_FullThroughoutCall
    /\ \A t \in Threads : ret[t][1] # "e_QUEUE_EMPTY"

\* C36: reservePushIndex returns e_QUEUE_FULL only if at some instant of the
\* call no element was EMPTY; so, in the runs in which an EMPTY element is
\* in the queue from the start of every reservePushIndex call to its return,
\* no call returns e_QUEUE_FULL.
C36_FreeThroughoutCall ==
    \A t \in Threads : InReservePushIndex(t) => NumFree >= 1

C36_NoSpuriousQueueFull ==
    /\ C36_FreeThroughoutCall
    /\ \A t \in Threads : ret[t][1] # "e_QUEUE_FULL"

\* C37: a length() call made in a quiescent state (no other call in
\* progress, no reservation held, the push index as the call loaded it)
\* returns the number of elements in state FULL.
C37_QuiescentFor(t) ==
    /\ \A u \in Threads \ {t} : pc[u] = "idle"
    /\ \A u \in Threads : hold[u] = "none"
    /\ loaded[t] = discardDisabledFlag(pushIndex)

C37_QuiescentLengthIsNumFull ==
    [][\A t \in Threads :
           (pc[t] = "len_pop" /\ C37_QuiescentFor(t)) =>
               /\ ~aborted'
               /\ pc'[t] = "idle" => ret'[t] = <<"length", NumFull>>]_vars

\* C38: the pop index never passes the push index: in every reachable state
\* the circular difference between the push index without its disabled flag
\* and the pop index, modulo d_maxCombinedIndex + 1, is not negative.
C38_PopIndexNotPastPushIndex ==
    circularDifference(discardDisabledFlag(pushIndex), popIndex,
                       d_maxCombinedIndex + 1) >= 0

\* An element goes from EMPTY to WRITING in the step.
C39_ElementReserved(i) ==
    /\ decodeStateFromElementState(states[i]) = e_EMPTY
    /\ decodeStateFromElementState(states'[i]) = e_WRITING

\* C39 as stated: while the disabled flag of the push index is set no
\* element goes from EMPTY to WRITING.
C39_NoReservationWhileDisabled ==
    [][isDisabledFlagSet(pushIndex) =>
           \A i \in 0..(capacity - 1) : ~C39_ElementReserved(i)]_vars

\* C39, amended: the word a reservePushIndex call examines is the push index
\* as it was when the call loaded it; a call that loaded it with the
\* disabled flag set returns e_DISABLED_QUEUE and changes nothing; and an
\* element goes from EMPTY to WRITING only in the element testAndSwap of a
\* call that loaded the push index without the flag, whether or not the
\* flag has been set since.
C39_ReservationByLoadedFlag ==
    [][/\ \A t \in Threads :
              /\ (pc'[t] = "rp_cas" /\ pc[t] # "rp_cas") =>
                     loaded'[t] = pushIndex
              /\ (pc[t] = "rp_cas" /\ pc'[t] # pc[t]
                                   /\ isDisabledFlagSet(loaded[t])) =>
                     /\ pc'[t] = "idle" /\ ret'[t][1] = "e_DISABLED_QUEUE"
                     /\ hold'[t] = "none" /\ shared' = shared
       /\ \A i \in 0..(capacity - 1) :
              C39_ElementReserved(i) =>
                  \E t \in Threads :
                      /\ pc[t] = "rp_cas" /\ pc'[t] = "rp_adv"
                      /\ ~isDisabledFlagSet(loaded[t])
                      /\ discardDisabledFlag(loaded[t]) % capacity = i
                      /\ hold'[t] = "W"]_vars

C39_Witness ==
    /\ isDisabledFlagSet(pushIndex)
    /\ \E t, u \in Threads :
           /\ pc[t] = "idle" /\ ret[t][1] = "e_DISABLED_QUEUE"
           /\ pc[u] = "rp_adv" /\ hold[u] = "W"
           /\ ~isDisabledFlagSet(loaded[u])
    /\ \E i \in 0..(capacity - 1) :
           decodeStateFromElementState(states[i]) = e_EMPTY



TypeOK ==
    /\ capacity \in 1..e_MAX_CAPACITY
    /\ pushIndex \in 0..(2 ^ WordBits - 1)
    /\ popIndex \in 0..d_maxCombinedIndex
    /\ \A i \in DOMAIN states : decodeGenerationFromElementState(states[i]) <= d_maxGeneration
====
